---------------------------- MODULE Spec2Model ----------------------------
(***************************************************************************)
(* GaussBot: the Matriz class (src/gauss_bot/clases/matriz.py).            *)
(*                                                                         *)
(* A Matriz instance holds aumentada, filas, columnas and valores, a list  *)
(* of row lists of Fraction objects.  Row lists are mutable objects, so    *)
(* they live in a store (mem) and an instance holds their addresses.       *)
(* Python indices are 0-based; the operators below keep them 0-based and   *)
(* translate at the point of access (PyItem).                              *)
(***************************************************************************)
EXTENDS Integers, Sequences, FiniteSets, TLC

VARIABLES
    mem,    \* the row lists: address (1..Len(mem)) -> sequence of Fraction
    mats,   \* the Matriz instances created so far, in creation order
    origen, \* for each instance, the call that returned it
    ult     \* the last call: operation, operands, result or exception

vars == <<mem, mats, origen, ult>>

---------------------------------------------------------------------------
(* Bounds of the model                                                     *)
MaxDim == 2      \* filas and columnas of the matrices given as input
MaxMats == 3     \* instances alive in one behaviour
MaxEntradas == 2 \* instances a caller constructs in one behaviour
MaxEscalar == 2  \* the scalars handed to matrix * Fraction are n/2, n up to this
MaxCeldas == 4   \* entries of each of the two operands of SpecArit

---------------------------------------------------------------------------
(* fractions.Fraction: exact rationals in lowest terms, denominator > 0    *)

Abs(x) == IF x < 0 THEN -x ELSE x

Min(a, b) == IF a < b THEN a ELSE b

RECURSIVE Gcd(_, _)
Gcd(a, b) == IF b = 0 THEN a ELSE Gcd(b, a % b)

Fraction(n, d) ==
    LET g == Gcd(Abs(n), Abs(d))
        s == IF d < 0 THEN -1 ELSE 1
    IN  [num |-> (s * n) \div g, den |-> Abs(d) \div g]

FCero == Fraction(0, 1)
FUno == Fraction(1, 1)

FAdd(a, b) == Fraction(a.num * b.den + b.num * a.den, a.den * b.den)
FSub(a, b) == Fraction(a.num * b.den - b.num * a.den, a.den * b.den)
FMul(a, b) == Fraction(a.num * b.num, a.den * b.den)
\* a / b, for b # 0 (the callers test the divisor first)
FDiv(a, b) == Fraction(a.num * b.den, a.den * b.num)
FAbs(a) == [num |-> Abs(a.num), den |-> a.den]
FLt(a, b) == a.num * b.den < b.num * a.den

IsFraction(x) == DOMAIN x = {"num", "den"}
IsMatriz(x) == DOMAIN x = {"aumentada", "filas", "columnas", "valores"}

---------------------------------------------------------------------------
(* Python lists: s[i] with 0-based and negative indices, zip, range        *)

PyEnRango(s, i) == i < Len(s) /\ i >= -Len(s)
PyItem(s, i) == s[IF i >= 0 THEN i + 1 ELSE Len(s) + i + 1]

\* grid[i][j] is defined (no IndexError)
PyEnRango2(grid, i, j) == PyEnRango(grid, i) /\ PyEnRango(PyItem(grid, i), j)
PyItem2(grid, i, j) == PyItem(PyItem(grid, i), j)

Rango(n) == 0 .. (n - 1)

---------------------------------------------------------------------------
(* Matriz as a value: valores is the grid itself (a sequence of rows).     *)
(* The instances of the state hold row addresses instead; Val reads one.   *)

Ok(m) == [err |-> "ok", ret |-> m]
Raise(e) == [err |-> e]

\* Optional[list[list[Fraction]]]: None, or Dado(grid) for a grid that is given
None == <<>>
Dado(grid) == <<grid>>

\* Matriz.__init__: zero-filled when valores is None, else stored as given
Matriz_init(aumentada, filas, columnas, valores) ==
    [aumentada |-> aumentada, filas |-> filas, columnas |-> columnas,
     valores |-> IF valores = None
                 THEN [i \in 1 .. filas |-> [j \in 1 .. columnas |-> FCero]]
                 ELSE valores[1]]

\* Matriz.__eq__
Matriz_eq(self, mat2) ==
    IF ~IsMatriz(mat2) THEN FALSE
    ELSE IF self.filas # mat2.filas \/ self.columnas # mat2.columnas THEN FALSE
    ELSE \A i \in 1 .. Min(Len(self.valores), Len(mat2.valores)) :
            \A j \in 1 .. Min(Len(self.valores[i]), Len(mat2.valores[i])) :
                self.valores[i][j] = mat2.valores[i][j]

\* the sums of two grids zipped row by row and entry by entry
mat_sumada(g1, g2) ==
    [i \in 1 .. Min(Len(g1), Len(g2)) |->
        [j \in 1 .. Min(Len(g1[i]), Len(g2[i])) |-> FAdd(g1[i][j], g2[i][j])]]

\* the differences of two grids zipped row by row and entry by entry
mat_restada(g1, g2) ==
    [i \in 1 .. Min(Len(g1), Len(g2)) |->
        [j \in 1 .. Min(Len(g1[i]), Len(g2[i])) |-> FSub(g1[i][j], g2[i][j])]]

\* Matriz.__add__
Matriz_add(self, mat2) ==
    IF self.filas # mat2.filas \/ self.columnas # mat2.columnas
    THEN Raise("ArithmeticError")
    ELSE Ok(Matriz_init(self.aumentada, self.filas, self.columnas,
                        Dado(mat_sumada(self.valores, mat2.valores))))

\* Matriz.__sub__ with the operands of the subtraction exchanged
Matriz_sub_invertida(self, mat2) ==
    IF self.filas # mat2.filas \/ self.columnas # mat2.columnas
    THEN Raise("ArithmeticError")
    ELSE Ok(Matriz_init(self.aumentada, self.filas, self.columnas,
                        Dado(mat_restada(mat2.valores, self.valores))))

\* Matriz.__sub__
Matriz_sub(self, mat2) ==
    IF self.filas # mat2.filas \/ self.columnas # mat2.columnas
    THEN Raise("ArithmeticError")
    ELSE Ok(Matriz_init(self.aumentada, self.filas, self.columnas,
                        Dado(mat_restada(self.valores, mat2.valores))))

\* Acumular with the k loop starting at 1 instead of 0
RECURSIVE AcumularDesdeUno(_, _, _, _, _)
AcumularDesdeUno(self, multiplicador, i, j, k) ==
    IF k <= 1 THEN FCero
    ELSE FAdd(AcumularDesdeUno(self, multiplicador, i, j, k - 1),
              FMul(PyItem2(self.valores, i, k - 1),
                   PyItem2(multiplicador.valores, k - 1, j)))

\* mat_multiplicada[i][j] after the k loop has run over 0 .. k-1
RECURSIVE Acumular(_, _, _, _, _)
Acumular(self, multiplicador, i, j, k) ==
    IF k = 0 THEN FCero
    ELSE FAdd(Acumular(self, multiplicador, i, j, k - 1),
              FMul(PyItem2(self.valores, i, k - 1),
                   PyItem2(multiplicador.valores, k - 1, j)))

\* Matriz.__mul__: by a Matriz, by a Fraction, else TypeError
Matriz_mul(self, multiplicador) ==
    IF IsMatriz(multiplicador) THEN
        IF self.columnas # multiplicador.filas THEN Raise("ArithmeticError")
        ELSE IF \E i \in Rango(self.filas), j \in Rango(multiplicador.columnas),
                   k \in Rango(self.columnas) :
                    ~ PyEnRango2(self.valores, i, k)
                    \/ ~ PyEnRango2(multiplicador.valores, k, j)
        THEN Raise("IndexError")
        ELSE Ok(Matriz_init(self.aumentada, self.filas, multiplicador.columnas,
                  Dado([i \in 1 .. self.filas |->
                     [j \in 1 .. multiplicador.columnas |->
                        Acumular(self, multiplicador, i - 1, j - 1, self.columnas)]])))
    ELSE IF IsFraction(multiplicador) THEN
        Ok(Matriz_init(self.aumentada, self.filas, self.columnas,
             Dado([i \in 1 .. Len(self.valores) |->
                [j \in 1 .. Len(self.valores[i]) |->
                    FMul(multiplicador, self.valores[i][j])]])))
    ELSE Raise("TypeError")

\* Matriz.es_matriz_cero
es_matriz_cero(self) ==
    \A i \in 1 .. Len(self.valores) :
        \A j \in 1 .. Len(self.valores[i]) : self.valores[i][j] = FCero

\* Matriz.es_cuadrada
es_cuadrada(self) == self.filas = self.columnas

\* all(grid[i][j] == valor for (i, j) in the list idx, in order): the generator
\* stops at the first entry that differs, and an access outside the lists
\* raises IndexError if it is reached before that
RECURSIVE TodosIguales(_, _, _)
TodosIguales(grid, idx, valor) ==
    IF idx = <<>> THEN Ok(TRUE)
    ELSE LET i == Head(idx)[1]
             j == Head(idx)[2]
         IN  IF ~ PyEnRango2(grid, i, j) THEN Raise("IndexError")
             ELSE IF PyItem2(grid, i, j) # valor THEN Ok(FALSE)
             ELSE TodosIguales(grid, Tail(idx), valor)

\* (i, i) for i in range(filas)
Diagonal(filas) == [n \in 1 .. filas |-> <<n - 1, n - 1>>]

\* (i, j) for i in range(filas) for j in range(columnas), row-major
RECURSIVE FueraDiagonalDesde(_, _, _)
FueraDiagonalDesde(p, filas, columnas) ==
    IF p >= filas * columnas THEN <<>>
    ELSE LET i == p \div columnas
             j == p % columnas
         IN  (IF i # j THEN <<(<<i, j>>)>> ELSE <<>>)
                \o FueraDiagonalDesde(p + 1, filas, columnas)

FueraDiagonal(filas, columnas) ==
    IF columnas = 0 THEN <<>> ELSE FueraDiagonalDesde(0, filas, columnas)

\* Matriz.es_identidad
es_identidad(self) ==
    LET diagonales_son_1 == TodosIguales(self.valores, Diagonal(self.filas), FUno)
        resto_son_cero ==
            TodosIguales(self.valores, FueraDiagonal(self.filas, self.columnas), FCero)
    IN  IF diagonales_son_1.err # "ok" THEN diagonales_son_1
        ELSE IF resto_son_cero.err # "ok" THEN resto_son_cero
        ELSE Ok(es_cuadrada(self) /\ diagonales_son_1.ret /\ resto_son_cero.ret)

\* Matriz.transponer
transponer(self) ==
    IF \E i \in Rango(self.columnas), j \in Rango(self.filas) :
            ~ PyEnRango2(self.valores, j, i)
    THEN Raise("IndexError")
    ELSE Ok(Matriz_init(self.aumentada, self.columnas, self.filas,
              Dado([i \in 1 .. self.columnas |->
                 [j \in 1 .. self.filas |-> PyItem2(self.valores, j - 1, i - 1)]])))

\* Matriz.__getitem__: indice is an int (a row) or a pair (an element)
Matriz_getitem(self, indice) ==
    IF indice.tipo = "int" THEN
        IF indice.i < 0 \/ indice.i >= self.filas THEN Raise("IndexError")
        ELSE IF ~ PyEnRango(self.valores, indice.i) THEN Raise("IndexError")
        ELSE Ok(PyItem(self.valores, indice.i))
    ELSE IF indice.tipo = "tuple" THEN
        IF indice.fila >= self.filas \/ indice.columna >= self.columnas
        THEN Raise("IndexError")
        ELSE IF ~ PyEnRango2(self.valores, indice.fila, indice.columna)
        THEN Raise("IndexError")
        ELSE Ok(PyItem2(self.valores, indice.fila, indice.columna))
    ELSE Raise("TypeError")

---------------------------------------------------------------------------
(* Row storage.  A list of rows is a sequence of addresses into a store.   *)

\* the grid a list of row addresses denotes in store m
Grid(m, lista) == [n \in 1 .. Len(lista) |-> m[lista[n]]]

\* an instance of the state read as a value
Val(m, inst) == [inst EXCEPT !.valores = Grid(m, inst.valores)]

\* the addresses of n rows allocated at the end of store m
Nuevas(m, n) == [k \in 1 .. n |-> Len(m) + k]

\* list(self.valores): a new outer list of the same row lists
copia_superficial(m, lista) == [mem |-> m, lista |-> lista]

\* copy.deepcopy(self.valores): a new outer list of new row lists
deepcopy(m, lista) ==
    [mem |-> m \o Grid(m, lista), lista |-> Nuevas(m, Len(lista))]

\* MaxFila without abs(): the first row index whose entry is the largest
MaxFilaSinAbs(grid, i, filas) ==
    LET clave == [j \in i .. (filas - 1) |-> PyItem2(grid, j, i)]
    IN  CHOOSE j \in i .. (filas - 1) :
            /\ \A j2 \in i .. (filas - 1) : ~ FLt(clave[j], clave[j2])
            /\ \A j2 \in i .. (j - 1) : FLt(clave[j2], clave[j])

\* max(range(i, filas), key=lambda j: abs(mat_triangular[j][i])): the first
\* row index whose entry in column i has the largest absolute value
MaxFila(grid, i, filas) ==
    LET clave == [j \in i .. (filas - 1) |-> FAbs(PyItem2(grid, j, i))]
    IN  CHOOSE j \in i .. (filas - 1) :
            /\ \A j2 \in i .. (filas - 1) : ~ FLt(clave[j], clave[j2])
            /\ \A j2 \in i .. (j - 1) : FLt(clave[j2], clave[j])

\* a + factor * b
RestaEscaladaConSuma(a, factor, b) == FAdd(a, FMul(factor, b))

\* mat_triangular[j][k] -= factor * mat_triangular[i][k]
RestaEscalada(a, factor, b) == FSub(a, FMul(factor, b))

\* the body of the j loop for one j: row j -= factor * row i, entry by entry,
\* in place; st is [mem, lista, intercambio, cambios, err]
EliminarFila(st, i, j, columnas) ==
    LET fila_i == st.mem[PyItem(st.lista, i)]
        fila_j == st.mem[PyItem(st.lista, j)]
    IN  IF PyItem(fila_i, i) = FCero THEN [st EXCEPT !.err = "ZeroDivisionError"]
        ELSE
        LET factor == FDiv(PyItem(fila_j, i), PyItem(fila_i, i))
            hechas == Min(columnas, Min(Len(fila_i), Len(fila_j)))
            nueva == [k \in 1 .. Len(fila_j) |->
                        IF k <= hechas
                        THEN RestaEscalada(fila_j[k], factor, fila_i[k])
                        ELSE fila_j[k]]
        IN  [st EXCEPT !.mem[PyItem(st.lista, j)] = nueva,
                       !.err = IF hechas < columnas THEN "IndexError" ELSE "ok"]

\* for j in range(desde, filas): EliminarFila
RECURSIVE EliminarDebajo(_, _, _, _, _)
EliminarDebajo(st, i, desde, filas, columnas) ==
    IF desde >= filas \/ st.err # "ok" THEN st
    ELSE EliminarDebajo(EliminarFila(st, i, desde, columnas),
                        i, desde + 1, filas, columnas)

\* the rows are exchanged and the flag is left as it was
IntercambiarSinBandera(st, i, max_f) ==
    [st EXCEPT !.lista[i + 1] = st.lista[max_f + 1],
               !.lista[max_f + 1] = st.lista[i + 1],
               !.cambios = st.cambios + 1]

\* rows i and max_f are exchanged and intercambio is toggled
Intercambiar(st, i, max_f) ==
    [st EXCEPT !.lista[i + 1] = st.lista[max_f + 1],
               !.lista[max_f + 1] = st.lista[i + 1],
               !.intercambio = ~ st.intercambio,
               !.cambios = st.cambios + 1]

\* the body of the i loop: pivot choice, zero test, swap, elimination
Pivotear(st, i, filas, columnas) ==
    LET grid == Grid(st.mem, st.lista)
    IN  IF \E j \in i .. (filas - 1) : ~ PyEnRango2(grid, j, i)
        THEN [st EXCEPT !.err = "IndexError"]
        ELSE
        LET max_f == MaxFila(grid, i, filas)
        IN  IF PyItem2(grid, max_f, i) = FCero THEN st
            ELSE
            LET cambiada == IF max_f # i THEN Intercambiar(st, i, max_f) ELSE st
            IN  EliminarDebajo(cambiada, i, i + 1, filas, columnas)

\* for i in range(desde, filas): Pivotear
RECURSIVE Triangular(_, _, _, _)
Triangular(st, desde, filas, columnas) ==
    IF desde >= filas \/ st.err # "ok" THEN st
    ELSE Triangular(Pivotear(st, desde, filas, columnas), desde + 1, filas, columnas)

\* Matriz.hacer_triangular_superior on the instance self in store m: the
\* store and the row list after the loops, the swap flag, and cambios, the
\* number of row interchanges performed
hacer_triangular_superior(m, self) ==
    LET copia == deepcopy(m, self.valores)
    IN  Triangular([mem |-> copia.mem, lista |-> copia.lista,
                    intercambio |-> FALSE, cambios |-> 0, err |-> "ok"],
                   0, self.filas, self.columnas)

\* Matriz.__setitem__ on the instance self in store m: the store afterwards
Matriz_setitem(m, self, fila, columna, valor) ==
    IF fila < 0 \/ columna < 0 \/ fila >= self.filas \/ columna >= self.columnas
    THEN [err |-> "IndexError", mem |-> m]
    ELSE IF ~ PyEnRango2(Grid(m, self.valores), fila, columna)
    THEN [err |-> "IndexError", mem |-> m]
    ELSE [err |-> "ok",
          mem |-> [m EXCEPT ![PyItem(self.valores, fila)][columna + 1] = valor]]

---------------------------------------------------------------------------
(* Inputs                                                                  *)

Dims == 1 .. MaxDim
Entradas == {Fraction(n, 1) : n \in {-2, 0, 1}}
EntradasChicas == {Fraction(n, 1) : n \in {0, 1}}
Escalares == {Fraction(n, 2) : n \in 1 .. MaxEscalar}
Indices == (0 - MaxDim - 1) .. (MaxDim + 1)

\* the rectangular grids of f rows and c columns over the entries E
Grids(f, c, E) == [1 .. f -> [1 .. c -> E]]

---------------------------------------------------------------------------
(* The calls.  Each records in ult what was called and what came back.     *)

Llamada(op, a, b, err, ret) ==
    [op |-> op, a |-> a, b |-> b, err |-> err, ret |-> ret]

Ninguna == Llamada("ninguna", 0, 0, "ok", 0)

Insts == 1 .. Len(mats)

\* the value of instance a in the current state
V(a) == Val(mem, mats[a])

\* the call op(a, b) as origen keeps it
Origen(op, a, b) == [op |-> op, a |-> a, b |-> b]

\* a new instance whose rows are new lists holding the grid of valor
Crear(valor) ==
    /\ mem' = mem \o valor.valores
    /\ mats' = Append(mats,
                 [valor EXCEPT !.valores = Nuevas(mem, Len(valor.valores))])

\* r is what a call returned: a new Matriz, or an exception
Devolver(op, a, b, r) ==
    IF r.err = "ok"
    THEN /\ Crear(r.ret)
         /\ origen' = Append(origen, Origen(op, a, b))
         /\ ult' = Llamada(op, a, b, "ok", Len(mats) + 1)
    ELSE /\ UNCHANGED <<mem, mats, origen>>
         /\ ult' = Llamada(op, a, b, r.err, 0)

\* Matriz(aumentada, filas, columnas)
NuevaCero(aum, f, c) ==
    Devolver("init", 0, 0, Ok(Matriz_init(aum, f, c, None)))

\* Matriz(aumentada, filas, columnas, valores)
Nueva(aum, f, c, grid) ==
    Devolver("init", 0, 0, Ok(Matriz_init(aum, f, c, Dado(grid))))

\* mats[a] + mats[b]
Sumar(a, b) == Devolver("add", a, b, Matriz_add(V(a), V(b)))

\* mats[a] - mats[b]
Restar(a, b) == Devolver("sub", a, b, Matriz_sub(V(a), V(b)))

\* mats[a] * mats[b]
Multiplicar(a, b) == Devolver("mul", a, b, Matriz_mul(V(a), V(b)))

\* mats[a] * k
MultiplicarEscalar(a, k) == Devolver("mul_escalar", a, k, Matriz_mul(V(a), k))

\* mats[a].transponer()
Transponer(a) == Devolver("transponer", a, 0, transponer(V(a)))

\* mats[a].hacer_triangular_superior()
HacerTriangular(a) ==
    LET self == mats[a]
        t == hacer_triangular_superior(mem, self)
    IN  IF t.err = "ok"
        THEN /\ mem' = t.mem
             /\ mats' = Append(mats, Matriz_init(self.aumentada, self.filas,
                                                 self.columnas, Dado(t.lista)))
             /\ origen' = Append(origen, Origen("triangular", a, 0))
             /\ ult' = Llamada("triangular", a, 0, "ok",
                               [mat |-> Len(mats) + 1,
                                intercambio |-> t.intercambio,
                                cambios |-> t.cambios])
        ELSE \* the exception leaves the copy unreachable
             /\ mem' = SubSeq(t.mem, 1, Len(mem))
             /\ UNCHANGED <<mats, origen>>
             /\ ult' = Llamada("triangular", a, 0, t.err, 0)

\* mats[a].es_identidad()
EsIdentidad(a) ==
    LET r == es_identidad(V(a))
    IN  /\ ult' = Llamada("es_identidad", a, 0, r.err,
                          IF r.err = "ok" THEN r.ret ELSE 0)
        /\ UNCHANGED <<mem, mats, origen>>

\* mats[a][i]  and  mats[a][i, j]
GetItem(a, indice) ==
    LET r == Matriz_getitem(V(a), indice)
    IN  /\ ult' = Llamada("getitem", a, indice, r.err,
                          IF r.err = "ok" THEN r.ret ELSE 0)
        /\ UNCHANGED <<mem, mats, origen>>

\* mats[a][i, j] = valor
SetItem(a, i, j, valor) ==
    LET r == Matriz_setitem(mem, mats[a], i, j, valor)
    IN  /\ mem' = r.mem
        /\ ult' = Llamada("setitem", a, [fila |-> i, columna |-> j], r.err, valor)
        /\ UNCHANGED <<mats, origen>>

---------------------------------------------------------------------------
(* The state after the caller has built the matrices ms, one after another *)

RECURSIVE Construidas(_)
Construidas(ms) ==
    IF ms = <<>> THEN [mem |-> <<>>, mats |-> <<>>]
    ELSE LET antes == Construidas(SubSeq(ms, 1, Len(ms) - 1))
             valor == ms[Len(ms)]
         IN  [mem |-> antes.mem \o valor.valores,
              mats |-> Append(antes.mats,
                         [valor EXCEPT
                            !.valores = Nuevas(antes.mem, Len(valor.valores))])]

InitCon(ms) ==
    /\ mem = Construidas(ms).mem
    /\ mats = Construidas(ms).mats
    /\ origen = [k \in 1 .. Len(ms) |-> Origen("init", 0, 0)]
    /\ ult = Ninguna

\* the matrix of the documented scenario: A = [[1, 2], [3, 4]], not augmented
Ejemplo ==
    Matriz_init(FALSE, 2, 2,
        Dado(<< <<Fraction(1, 1), Fraction(2, 1)>>,
                <<Fraction(3, 1), Fraction(4, 1)>> >>))

(* SpecTri: one matrix, and one call of the identity predicate or of the   *)
(* triangularization on it (es_identidad changes nothing, so a second call *)
(* would see what the first one saw).                                      *)
InitTri ==
    \/ \E aum \in BOOLEAN, f \in Dims, c \in Dims :
          \E g \in Grids(f, c, Entradas) :
             InitCon(<<Matriz_init(aum, f, c, Dado(g))>>)
    \/ InitCon(<<Ejemplo>>)

TriHacer == ult.op = "ninguna" /\ HacerTriangular(1)

TriIdentidad == ult.op = "ninguna" /\ EsIdentidad(1)

NextTri == TriHacer \/ TriIdentidad

SpecTri == InitTri /\ [][NextTri]_vars

---------------------------------------------------------------------------
(* Properties of the triangularization                                     *)

\* the call that has just returned is a.hacer_triangular_superior()
Triangulo == ult.op = "triangular"
TrianguloOk == ult.op = "triangular" /\ ult.err = "ok"

\* the operand and the returned matrix of that call
Operando == V(ult.a)
Resultado == V(ult.ret.mat)

Cuadrada(m) == m.filas = m.columnas
FilaCero(fila) == \A k \in 1 .. Len(fila) : fila[k] = FCero
TieneFilaCero(m) == \E i \in 1 .. m.filas : FilaCero(m.valores[i])
TieneFilasIguales(m) ==
    \E i, j \in 1 .. m.filas : i # j /\ m.valores[i] = m.valores[j]
DiagonalConCero(m) == \E i \in 1 .. m.filas : m.valores[i][i] = FCero

\* the grid without row 1 and without column j
Menor(g, j) ==
    [i \in 1 .. (Len(g) - 1) |->
        [k \in 1 .. (Len(g) - 1) |-> g[i + 1][IF k < j THEN k ELSE k + 1]]]

\* sum of f[1] .. f[n]
RECURSIVE FSuma(_, _)
FSuma(f, n) == IF n = 0 THEN FCero ELSE FAdd(FSuma(f, n - 1), f[n])

\* the determinant of a square grid, by expansion along the first row
RECURSIVE Det(_)
Det(g) ==
    IF Len(g) = 0 THEN FUno
    ELSE FSuma([j \in 1 .. Len(g) |->
                  FMul(FMul(Fraction(IF j % 2 = 1 THEN 1 ELSE -1, 1), g[1][j]),
                       Det(Menor(g, j)))],
               Len(g))

\* product of the diagonal entries g[1][1] .. g[n][n]
RECURSIVE ProdDiagonal(_, _)
ProdDiagonal(g, n) ==
    IF n = 0 THEN FUno ELSE FMul(ProdDiagonal(g, n - 1), g[n][n])

\* what the caller computes from the pair (T, swapped)
DetDesdeTriangular(T, intercambio) ==
    FMul(Fraction(IF intercambio THEN -1 ELSE 1, 1),
         ProdDiagonal(T.valores, T.filas))

\* C1: hacer_triangular_superior returns a pair and raises nothing, whatever
\* the shape of the matrix: square, filas < columnas or filas > columnas.
C1_TriangularNuncaFalla == Triangulo => ult.err = "ok"

C6_FilaCeroOriginal ==
    (TrianguloOk /\ Cuadrada(Operando)
        /\ (TieneFilaCero(Operando) \/ TieneFilasIguales(Operando)))
    => TieneFilaCero(Resultado)

\* C6 amended: for a square matrix with an all-zero row the returned matrix
\* has a row of zeros; for a square matrix with an all-zero row or two
\* identical rows the returned matrix has a zero on its diagonal.
C6_FilaCero ==
    (TrianguloOk /\ Cuadrada(Operando)) =>
        /\ TieneFilaCero(Operando) => TieneFilaCero(Resultado)
        /\ (TieneFilaCero(Operando) \/ TieneFilasIguales(Operando))
              => DiagonalConCero(Resultado)

\* C6 witness: two identical rows whose first column is zero come back as
\* they were: a zero on the diagonal and no row of zeros.
C6_Witness ==
    /\ TrianguloOk
    /\ Cuadrada(Operando)
    /\ TieneFilasIguales(Operando)
    /\ ~ TieneFilaCero(Operando)
    /\ ~ TieneFilaCero(Resultado)
    /\ DiagonalConCero(Resultado)

\* C8: for a square matrix every entry of the returned matrix below the
\* main diagonal is zero, also in the columns whose pivot was zero.
C8_TriangularSuperior ==
    (TrianguloOk /\ Cuadrada(Operando)) =>
        \A j, i \in 1 .. Resultado.filas :
            j > i => Resultado.valores[j][i] = FCero

\* C8 witness: an entry below the diagonal was not zero and is zero in the
\* result, next to an entry that is not an integer.
C8_Witness ==
    /\ TrianguloOk
    /\ Cuadrada(Operando)
    /\ Operando.filas = MaxDim
    /\ Operando.valores[2][1] # FCero
    /\ Resultado.valores[2][1] = FCero
    /\ Resultado.valores[2][2].den # 1

\* the call that has just returned is a.es_identidad()
Identidad == ult.op = "es_identidad"

\* square, ones on the diagonal, zeros elsewhere
EsMatrizIdentidad(m) ==
    /\ m.filas = m.columnas
    /\ \A i \in 1 .. m.filas : \A j \in 1 .. m.columnas :
          m.valores[i][j] = (IF i = j THEN FUno ELSE FCero)

\* C4: es_identidad returns true exactly for the square matrices with ones
\* on the diagonal and zeros elsewhere, and returns false, without failing,
\* for every matrix that is not square.
C4_EsIdentidad ==
    Identidad => (ult.err = "ok" /\ ult.ret = EsMatrizIdentidad(V(ult.a)))

---------------------------------------------------------------------------
(* SpecAcceso: one matrix, and one access to it: m[i], m[i, j] or          *)
(* m[i, j] = v, with i and j inside and outside the matrix.                *)

InitAcceso ==
    \E aum \in BOOLEAN, f \in Dims, c \in Dims :
        \E g \in Grids(f, c, EntradasChicas) :
            InitCon(<<Matriz_init(aum, f, c, Dado(g))>>)

AccesoFila ==
    /\ ult.op = "ninguna"
    /\ \E i \in Indices : GetItem(1, [tipo |-> "int", i |-> i])

AccesoElemento ==
    /\ ult.op = "ninguna"
    /\ \E i \in Indices, j \in Indices :
          GetItem(1, [tipo |-> "tuple", fila |-> i, columna |-> j])

AccesoEscribir ==
    /\ ult.op = "ninguna"
    /\ \E i \in Indices, j \in Indices, v \in EntradasChicas : SetItem(1, i, j, v)

NextAcceso == AccesoFila \/ AccesoElemento \/ AccesoEscribir

SpecAcceso == InitAcceso /\ [][NextAcceso]_vars

\* the row index i, or the column index j, is outside the matrix m
FilaFuera(m, i) == i < 0 \/ i >= m.filas
ColumnaFuera(m, j) == j < 0 \/ j >= m.columnas

\* the indices of the access that has just returned are outside the matrix
AccesoFuera ==
    \/ /\ ult.op = "getitem"
       /\ ult.b.tipo = "int"
       /\ FilaFuera(V(ult.a), ult.b.i)
    \/ /\ ult.op = "getitem"
       /\ ult.b.tipo = "tuple"
       /\ FilaFuera(V(ult.a), ult.b.fila) \/ ColumnaFuera(V(ult.a), ult.b.columna)
    \/ /\ ult.op = "setitem"
       /\ FilaFuera(V(ult.a), ult.b.fila) \/ ColumnaFuera(V(ult.a), ult.b.columna)

\* C3: a row access, an element read or an element write with a row index
\* outside [0, filas) or a column index outside [0, columnas), negative
\* indices included, fails with IndexError.
C3_IndiceFuera == AccesoFuera => ult.err = "IndexError"

---------------------------------------------------------------------------
(* SpecArit: two matrices A and B, one sum, difference or product of them, *)
(* and the difference of a sum and one of A and B.                         *)

InitArit ==
    \/ \E aumA \in BOOLEAN, fA \in Dims, cA \in Dims,
          aumB \in BOOLEAN, fB \in Dims, cB \in Dims :
          /\ fA * cA <= MaxCeldas
          /\ fB * cB <= MaxCeldas
          /\ \E gA \in Grids(fA, cA, EntradasChicas),
             gB \in Grids(fB, cB, EntradasChicas) :
             InitCon(<<Matriz_init(aumA, fA, cA, Dado(gA)),
                       Matriz_init(aumB, fB, cB, Dado(gB))>>)
    \/ InitCon(<<Ejemplo, Ejemplo>>)

AritSumar ==
    /\ Len(mats) = 2
    /\ \E a \in Insts, b \in Insts : Sumar(a, b)

AritRestar ==
    \/ /\ Len(mats) = 2
       /\ \E a \in Insts, b \in Insts : Restar(a, b)
    \/ /\ Len(mats) = 3
       /\ ult.op = "add"
       /\ \E b \in 1 .. 2 : Restar(3, b)

AritMultiplicar ==
    /\ Len(mats) = 2
    /\ \E a \in Insts, b \in Insts : Multiplicar(a, b)

NextArit == AritSumar \/ AritRestar \/ AritMultiplicar

SpecArit == InitArit /\ [][NextArit]_vars

\* sum over k of a[i][k] * b[k][j], for a with n columns
Producto(a, b, i, j, n) ==
    FSuma([k \in 1 .. n |-> FMul(a.valores[i][k], b.valores[k][j])], n)

\* C9: a * b fails with the dimension error, returning nothing, unless
\* a.columnas = b.filas; otherwise it returns a matrix of a.filas rows and
\* b.columnas columns with a's augmented flag whose entry [i][j] is the sum
\* over k of a[i][k] * b[k][j], so that A * I == A and I * A == A.
C9_Producto ==
    ult.op = "mul" =>
        LET a == V(ult.a)
            b == V(ult.b)
        IN  IF a.columnas # b.filas
            THEN ult.err = "ArithmeticError" /\ ult.ret = 0 /\ Len(mats) = 2
            ELSE /\ ult.err = "ok"
                 /\ LET r == V(ult.ret)
                    IN  /\ r.filas = a.filas
                        /\ r.columnas = b.columnas
                        /\ r.aumentada = a.aumentada
                        /\ Len(r.valores) = a.filas
                        /\ \A i \in 1 .. a.filas :
                              /\ Len(r.valores[i]) = b.columnas
                              /\ \A j \in 1 .. b.columnas :
                                    r.valores[i][j] = Producto(a, b, i, j, a.columnas)
                        /\ EsMatrizIdentidad(b) => Matriz_eq(r, a)
                        /\ EsMatrizIdentidad(a) => Matriz_eq(r, b)

\* C9 witness: a matrix that is not square times the identity, the flags of
\* the two operands differing.
C9_Witness ==
    /\ ult.op = "mul"
    /\ ult.err = "ok"
    /\ V(ult.a).filas # V(ult.a).columnas
    /\ V(ult.a).columnas = MaxDim
    /\ ~ es_matriz_cero(V(ult.a))
    /\ EsMatrizIdentidad(V(ult.b))
    /\ V(ult.a).aumentada # V(ult.b).aumentada
    /\ Matriz_eq(V(ult.ret), V(ult.a))
    /\ V(ult.ret).aumentada = V(ult.a).aumentada

MismasDimensiones(a, b) == a.filas = b.filas /\ a.columnas = b.columnas

\* C10: for A and B of the same dimensions, whatever their augmented flags,
\* (A + B) - B == A and A + B == B + A under Matriz.__eq__; for A and B of
\* different dimensions A + B and A - B fail with the dimension error.
C10_SumaResta ==
    ult.op \in {"add", "sub"} =>
        LET a == V(ult.a)
            b == V(ult.b)
        IN  IF ~ MismasDimensiones(a, b)
            THEN ult.err = "ArithmeticError"
            ELSE /\ ult.err = "ok"
                 /\ ult.op = "add" =>
                       /\ Matriz_add(b, a).err = "ok"
                       /\ Matriz_eq(V(ult.ret), Matriz_add(b, a).ret)
                       /\ Matriz_eq(Matriz_add(b, a).ret, V(ult.ret))
                 /\ (ult.op = "sub" /\ origen[ult.a].op = "add"
                        /\ origen[ult.a].b = ult.b)
                       => Matriz_eq(V(ult.ret), V(origen[ult.a].a))

\* C10 witness: (A + B) - B has been computed for A and B of different
\* augmented flags, B not zero, and equals A.
C10_Witness ==
    /\ ult.op = "sub"
    /\ ult.err = "ok"
    /\ origen[ult.a].op = "add"
    /\ origen[ult.a].b = ult.b
    /\ origen[ult.a].a # ult.b
    /\ V(ult.b).aumentada # V(origen[ult.a].a).aumentada
    /\ V(ult.b).filas = MaxDim
    /\ ~ es_matriz_cero(V(ult.b))
    /\ ~ es_matriz_cero(V(origen[ult.a].a))
    /\ V(ult.a) # V(origen[ult.a].a)
    /\ Matriz_eq(V(ult.ret), V(origen[ult.a].a))

---------------------------------------------------------------------------
(* Spec: matrices are constructed, combined by the arithmetic operators,   *)
(* transposed and triangularized, and an element of one of them is then    *)
(* written.                                                                *)

\* the grid of f rows and c columns holding 1, 2, 3, ... row by row (the
\* grid of Ejemplo when f = c = 2)
Numerada(f, c) == [i \in 1 .. f |-> [j \in 1 .. c |-> Fraction(c * (i - 1) + j, 1)]]

InitVacio ==
    /\ mem = <<>>
    /\ mats = <<>>
    /\ origen = <<>>
    /\ ult = Ninguna

\* no element has been written
SinEscribir == ult.op # "setitem"

OpNuevaCero(entradas) ==
    /\ Len(mats) < entradas
    /\ SinEscribir
    /\ \E aum \in BOOLEAN, f \in Dims, c \in Dims : NuevaCero(aum, f, c)

\* construction from explicit values of the shape the dimensions say
OpNueva(entradas) ==
    /\ Len(mats) < entradas
    /\ SinEscribir
    /\ \E aum \in BOOLEAN, f \in Dims, c \in Dims : Nueva(aum, f, c, Numerada(f, c))

OpSumar(cap) ==
    /\ Len(mats) < cap
    /\ SinEscribir
    /\ \E a \in Insts, b \in Insts : Sumar(a, b)

OpRestar(cap) ==
    /\ Len(mats) < cap
    /\ SinEscribir
    /\ \E a \in Insts, b \in Insts : Restar(a, b)

OpMultiplicar(cap) ==
    /\ Len(mats) < cap
    /\ SinEscribir
    /\ \E a \in Insts, b \in Insts : Multiplicar(a, b)

OpMultiplicarEscalar(cap) ==
    /\ Len(mats) < cap
    /\ SinEscribir
    /\ \E a \in Insts, k \in Escalares : MultiplicarEscalar(a, k)

OpTransponer(cap) ==
    /\ Len(mats) < cap
    /\ SinEscribir
    /\ \E a \in Insts : Transponer(a)

OpHacerTriangular(cap) ==
    /\ Len(mats) < cap
    /\ SinEscribir
    /\ \E a \in Insts : HacerTriangular(a)

\* one element write, the last call of the behaviour
OpSetItem ==
    /\ SinEscribir
    /\ \E a \in Insts, i \in Rango(MaxDim), j \in Rango(MaxDim),
          v \in EntradasChicas : SetItem(a, i, j, v)

Next ==
    \/ OpNuevaCero(MaxEntradas)
    \/ OpNueva(MaxEntradas)
    \/ OpSumar(MaxMats)
    \/ OpRestar(MaxMats)
    \/ OpMultiplicar(MaxMats)
    \/ OpMultiplicarEscalar(MaxMats)
    \/ OpTransponer(MaxMats)
    \/ OpHacerTriangular(MaxMats)
    \/ OpSetItem

Spec == InitVacio /\ [][Next]_vars


\* the calls that return a new matrix computed from their operands
Operaciones == {"add", "sub", "mul", "mul_escalar", "transponer", "triangular"}

\* the addresses of the row lists of an instance
Direcciones(inst) == {inst.valores[n] : n \in 1 .. Len(inst.valores)}

\* C7: add, sub, both multiplications, transpose and triangularization leave
\* the dimensions, the augmented flag and every value of the matrices that
\* exist unchanged, and the matrix they return shares no row list with any
\* of them; an element write on one matrix changes no other matrix.
C7_Marco ==
    [][/\ ult'.op \in Operaciones =>
            /\ \A a \in Insts :
                  /\ mats'[a] = mats[a]
                  /\ Val(mem', mats'[a]) = V(a)
            /\ ult'.err = "ok" =>
                  /\ Len(mats') = Len(mats) + 1
                  /\ \A a \in Insts :
                        Direcciones(mats'[Len(mats')]) \cap Direcciones(mats[a]) = {}
            /\ ult'.err # "ok" => mats' = mats
       /\ ult'.op = "setitem" =>
            \A a \in Insts \ {ult'.a} : Val(mem', mats'[a]) = V(a)
      ]_vars

\* C7 witness: the triangularization of Ejemplo has returned a matrix, an
\* element of that matrix has been written, and Ejemplo is as it was.
C7_Witness ==
    /\ ult.op = "setitem"
    /\ ult.err = "ok"
    /\ origen[ult.a].op = "triangular"
    /\ V(origen[ult.a].a) = Ejemplo
    /\ V(ult.a).valores[1][1] = ult.ret
    /\ ult.ret # Ejemplo.valores[2][1]

---------------------------------------------------------------------------
(* SpecForma: as Spec, for fewer matrices, with explicit values of any     *)
(* shape handed to the constructor.                                        *)

\* construction from explicit values of any shape
OpNuevaDada(entradas) ==
    /\ Len(mats) < entradas
    /\ SinEscribir
    /\ \E aum \in BOOLEAN, f \in Dims, c \in Dims, vf \in Dims, vc \in Dims :
          Nueva(aum, f, c, Numerada(vf, vc))

NextForma ==
    \/ OpNuevaCero(MaxEntradas)
    \/ OpNuevaDada(MaxEntradas)
    \/ OpSumar(MaxEntradas)
    \/ OpRestar(MaxEntradas)
    \/ OpMultiplicar(MaxEntradas)
    \/ OpMultiplicarEscalar(MaxEntradas)
    \/ OpTransponer(MaxEntradas)
    \/ OpHacerTriangular(MaxEntradas)
    \/ OpSetItem

SpecForma == InitVacio /\ [][NextForma]_vars

\* valores has filas rows of columnas entries each
BienFormada(m) ==
    /\ Len(m.valores) = m.filas
    /\ \A i \in 1 .. Len(m.valores) : Len(m.valores[i]) = m.columnas

\* C5: every instance has exactly filas rows of exactly columnas entries,
\* whatever constructions, element writes and operations came before; a
\* construction from explicit values of another shape fails instead.
C5_Forma == \A a \in Insts : BienFormada(V(a))

===========================================================================
